---- MODULE Spec2Model ----
(***************************************************************************)
(* Model of nmon_summary.py: the line scan of process_nmon_file, the       *)
(* header extractor, the AIX / Linux metric reducers, the memory reducer   *)
(* and the batch loop of main.                                             *)
(*                                                                         *)
(* Representation.                                                         *)
(*  - A Python str is a sequence of one-character strings; a line read by  *)
(*    readlines() keeps its trailing "\n".                                 *)
(*    The characters are those of ISO-8859-1, the encoding the files are   *)
(*    opened with.                                                         *)
(*  - A float is an IEEE 754 double <<kind, s, m, e>>: s * m * 2^e with m  *)
(*    odd, an infinity, or NaN.  Every operation rounds to the nearest     *)
(*    double, ties to even, as the hardware does.  The sign of a zero is   *)
(*    not kept.                                                            *)
(*  - A raised exception is a record field ok = FALSE of the result of the *)
(*    operator that models the raising expression.  What a file returns is *)
(*    a record [none, row]: none = TRUE for None, else row is the tuple.   *)
(***************************************************************************)
EXTENDS Integers, Sequences, FiniteSets, TLC

\* ------------------------------------------------------------------ bounds
MaxLines == 3
MaxFiles == 3
MaxRecs == 3

\* ------------------------------------------------------------------ str

\* Op applied to the value of e, evaluated once (a local variable of the code)
Bind(e, Op(_)) == CHOOSE r \in {Op(v) : v \in {e}} : TRUE

\* the characters str.strip() removes: in ISO-8859-1 these are \t \n \x0b \f
\* \r \x1c \x1d \x1e \x1f, the space, \x85 and \xa0
Whitespace ==
    {" ", "\t", "\n", "\r", "\f", "", "", "", "", "", "", " "}

Digits == <<"0", "1", "2", "3", "4", "5", "6", "7", "8", "9">>

IsDigit(c) == \E i \in 1..10 : Digits[i] = c

DigitVal(c) == (CHOOSE i \in 1..10 : Digits[i] = c) - 1

\* str.startswith(prefix)
StartsWith(s, prefix) ==
    /\ Len(s) >= Len(prefix)
    /\ SubSeq(s, 1, Len(prefix)) = prefix

\* sub in s
Contains(s, sub) ==
    \E i \in 1..(Len(s) - Len(sub) + 1) : SubSeq(s, i, i + Len(sub) - 1) = sub

RECURSIVE LStrip(_, _)
LStrip(s, chars) ==
    IF s # <<>> /\ Head(s) \in chars THEN LStrip(Tail(s), chars) ELSE s

RECURSIVE RStrip(_, _)
RStrip(s, chars) ==
    IF s # <<>> /\ s[Len(s)] \in chars
    THEN RStrip(SubSeq(s, 1, Len(s) - 1), chars)
    ELSE s

\* str.strip() and str.strip(chars)
Strip(s) == RStrip(LStrip(s, Whitespace), Whitespace)

StripChars(s, chars) == RStrip(LStrip(s, chars), chars)

\* str.split(sep) for a one-character separator: always at least one part
\* the positions of sep in s, between 0 and Len(s) + 1
Cuts(s, sep) ==
    <<0>> \o SelectSeq([i \in 1..Len(s) |-> i], LAMBDA i : s[i] = sep) \o <<Len(s) + 1>>

\* the parts between two cuts
Between(s, cuts) ==
    [k \in 1..(Len(cuts) - 1) |-> SubSeq(s, cuts[k] + 1, cuts[k + 1] - 1)]

Split(s, sep) == Between(s, Cuts(s, sep))

\* sep.join(parts): how the input lines of the model are written down
RECURSIVE Join(_, _)
Join(parts, sep) ==
    IF parts = <<>> THEN <<>>
    ELSE IF Len(parts) = 1 THEN parts[1]
    ELSE parts[1] \o <<sep>> \o Join(Tail(parts), sep)

\* ------------------------------------------------------------------ float

\* A natural number of any size: its digits in base 2^15, least significant
\* first, without a most significant zero digit; <<>> is 0.
LimbBits == 15

Base == 32768

Min(x, y) == IF x < y THEN x ELSE y

Max(x, y) == IF x < y THEN y ELSE x

Limb(a, i) == IF i <= Len(a) THEN a[i] ELSE 0

RECURSIVE BigNorm(_)
BigNorm(a) ==
    IF a # <<>> /\ a[Len(a)] = 0 THEN BigNorm(SubSeq(a, 1, Len(a) - 1)) ELSE a

RECURSIVE BigFromNat(_)
BigFromNat(n) == IF n = 0 THEN <<>> ELSE <<n % Base>> \o BigFromNat(n \div Base)

\* the native integer of a number below 2^30
BigToNat(a) == Limb(a, 1) + Base * Limb(a, 2)

\* r * 2^15 + limb
BigPush(r, limb) ==
    IF r = <<>> /\ limb = 0 THEN <<>> ELSE <<limb>> \o r

RECURSIVE BigAddFrom(_, _, _, _)
BigAddFrom(a, b, i, carry) ==
    IF i > Len(a) /\ i > Len(b)
    THEN BigFromNat(carry)
    ELSE <<(Limb(a, i) + Limb(b, i) + carry) % Base>>
         \o BigAddFrom(a, b, i + 1, (Limb(a, i) + Limb(b, i) + carry) \div Base)

BigAdd(a, b) == BigAddFrom(a, b, 1, 0)

RECURSIVE BigSubFrom(_, _, _, _)
BigSubFrom(a, b, i, borrow) ==
    IF i > Len(a)
    THEN <<>>
    ELSE <<(Limb(a, i) - Limb(b, i) - borrow + Base) % Base>>
         \o BigSubFrom(a, b, i + 1,
                       IF Limb(a, i) - Limb(b, i) - borrow < 0 THEN 1 ELSE 0)

\* a - b for a >= b
BigSub(a, b) == BigNorm(BigSubFrom(a, b, 1, 0))

RECURSIVE BigCmpAt(_, _, _)
BigCmpAt(a, b, i) ==
    IF i = 0 THEN 0
    ELSE IF a[i] < b[i] THEN -1
    ELSE IF a[i] > b[i] THEN 1
    ELSE BigCmpAt(a, b, i - 1)

\* -1, 0, 1 as a < b, a = b, a > b
BigCmp(a, b) ==
    IF Len(a) < Len(b) THEN -1
    ELSE IF Len(a) > Len(b) THEN 1
    ELSE BigCmpAt(a, b, Len(a))

RECURSIVE BigMulSmallFrom(_, _, _, _)
BigMulSmallFrom(a, k, i, carry) ==
    IF i > Len(a)
    THEN BigFromNat(carry)
    ELSE <<(a[i] * k + carry) % Base>>
         \o BigMulSmallFrom(a, k, i + 1, (a[i] * k + carry) \div Base)

\* a * k for a digit k
BigMulSmall(a, k) == IF k = 0 THEN <<>> ELSE BigMulSmallFrom(a, k, 1, 0)

\* a * b by columns: column k collects the products a[i] * b[k - i + 1], their
\* low digits in this column and their high digits in the next one
RECURSIVE ColumnLow(_, _, _, _, _)
ColumnLow(a, b, k, i, last) ==
    IF i > last THEN 0
    ELSE ((a[i] * b[k - i + 1]) % Base) + ColumnLow(a, b, k, i + 1, last)

RECURSIVE ColumnHigh(_, _, _, _, _)
ColumnHigh(a, b, k, i, last) ==
    IF i > last THEN 0
    ELSE ((a[i] * b[k - i + 1]) \div Base) + ColumnHigh(a, b, k, i + 1, last)

Column(a, b, k) ==
    ColumnLow(a, b, k, Max(1, k - Len(b) + 1), Min(Len(a), k))
    + ColumnHigh(a, b, k - 1, Max(1, k - Len(b)), Min(Len(a), k - 1))

RECURSIVE BigCarry(_, _, _)
BigCarry(d, i, carry) ==
    IF i > Len(d) THEN BigFromNat(carry)
    ELSE <<(d[i] + carry) % Base>> \o BigCarry(d, i + 1, (d[i] + carry) \div Base)

BigMul(a, b) ==
    BigNorm(BigCarry([k \in 1..(Len(a) + Len(b)) |-> Column(a, b, k)], 1, 0))

RECURSIVE BitLenNat(_)
BitLenNat(n) == IF n = 0 THEN 0 ELSE 1 + BitLenNat(n \div 2)

\* the number of binary digits of a
BigBitLen(a) ==
    IF a = <<>> THEN 0 ELSE LimbBits * (Len(a) - 1) + BitLenNat(a[Len(a)])

\* a * 2^(15 n)
BigShlLimbs(a, n) == IF a = <<>> THEN a ELSE [i \in 1..n |-> 0] \o a

\* a * 2^n
BigShl(a, n) == BigShlLimbs(BigMulSmall(a, 2 ^ (n % LimbBits)), n \div LimbBits)

BigShrBits(x, r) ==
    BigNorm([i \in 1..Len(x) |->
                (x[i] \div 2 ^ r) + (Limb(x, i + 1) % 2 ^ r) * 2 ^ (LimbBits - r)])

\* floor(a / 2^n)
BigShr(a, n) ==
    IF n \div LimbBits >= Len(a) THEN <<>>
    ELSE BigShrBits(SubSeq(a, n \div LimbBits + 1, Len(a)), n % LimbBits)

\* binary digit k of a (digit 0 is the least significant)
BigBit(a, k) == (Limb(a, k \div LimbBits + 1) \div 2 ^ (k % LimbBits)) % 2

\* one of the n least significant binary digits of a is 1
BigLowNonzero(a, n) ==
    \/ \E i \in 1..Min(Len(a), n \div LimbBits) : a[i] # 0
    \/ Limb(a, n \div LimbBits + 1) % 2 ^ (n % LimbBits) # 0

RECURSIVE TzNat(_)
TzNat(n) == IF n % 2 = 1 THEN 0 ELSE 1 + TzNat(n \div 2)

RECURSIVE BigTzFrom(_, _)
BigTzFrom(a, i) ==
    IF a[i] = 0 THEN LimbBits + BigTzFrom(a, i + 1) ELSE TzNat(a[i])

\* the number of trailing zero binary digits of a # 0
BigTz(a) == BigTzFrom(a, 1)

\* the quotient digit floor(r / d) for r < d * 2^15, the top digit of d being
\* at least 2^14: the estimate from the leading digits is at most 2 too large
RECURSIVE QDigitFrom(_, _, _)
QDigitFrom(r, d, est) ==
    IF BigCmp(BigMulSmall(d, est), r) > 0 THEN QDigitFrom(r, d, est - 1) ELSE est

QDigit(r, d) ==
    QDigitFrom(r, d,
               Min(Base - 1,
                   (Limb(r, Len(d) + 1) * Base + Limb(r, Len(d))) \div d[Len(d)]))

\* long division, the digits i .. 1 of n brought down onto the remainder r
RECURSIVE BigDivFrom(_, _, _, _, _)
BigDivDigit(n, d, i, r, q, digit) ==
    BigDivFrom(n, d, i - 1, BigSub(r, BigMulSmall(d, digit)), <<digit>> \o q)

BigDivStep(n, d, i, r, q) == BigDivDigit(n, d, i, r, q, QDigit(r, d))

BigDivFrom(n, d, i, r, q) ==
    IF i = 0 THEN <<BigNorm(q), r # <<>> >>
    ELSE BigDivStep(n, d, i, BigPush(r, n[i]), q)

\* the leading digits of n, one fewer than d has, are below d: they are the
\* first remainder
BigDivAll(n, d) ==
    IF Len(n) < Len(d) THEN <<<<>>, n # <<>> >>
    ELSE BigDivFrom(n, d, Len(n) - Len(d) + 1,
                    SubSeq(n, Len(n) - Len(d) + 2, Len(n)), <<>>)

\* <<floor(n / d), n mod d # 0>> for d # 0: both are scaled so that the top
\* digit of the divisor is at least 2^14
BigDivMod(n, d) ==
    BigDivAll(BigShl(n, LimbBits - BitLenNat(d[Len(d)])),
              BigShl(d, LimbBits - BitLenNat(d[Len(d)])))

\* A float: <<kind, s, m, e>>.  kind "num" is the double s * m * 2^e with
\* s in {1, -1} and m an odd natural number below 2^53, so that each double
\* has one form; 0 is <<"num", 1, <<>>, 0>> (the sign of zero is not kept).
\* kind "inf" is s * infinity, kind "nan" is NaN.
Num(s, m, e) == <<"num", s, m, e>>

Inf(s) == <<"inf", s, <<>>, 0>>

NaN == <<"nan", 1, <<>>, 0>>

Zero == Num(1, <<>>, 0)

IsNaN(r) == r[1] = "nan"

IsInf(r) == r[1] = "inf"

IsZero(r) == r[1] = "num" /\ r[3] = <<>>

\* s * K * 2^q for K # 0 in the form above
CanonShr(s, K, q, tz) == Num(s, BigShr(K, tz), q + tz)

Canon(s, K, q) == CanonShr(s, K, q, BigTz(K))

\* float(i) for an int i
FromInt(i) ==
    IF i = 0 THEN Zero
    ELSE Canon(IF i < 0 THEN -1 ELSE 1, BigFromNat(IF i < 0 THEN -i ELSE i), 0)

\* overflow to infinity at 2^1024
Finish(s, K, q) ==
    IF K = <<>> THEN Zero
    ELSE IF BigBitLen(K) + q > 1024 THEN Inf(s)
    ELSE Canon(s, K, q)

\* round half to even: the discarded part is above half, or is half and the
\* kept part is odd
RoundsUp(M, drop, sticky) ==
    /\ BigBit(M, drop - 1) = 1
    /\ (sticky \/ BigLowNonzero(M, drop - 1) \/ BigBit(M, drop) = 1)

RoundedShr(M, drop, sticky) ==
    BigAdd(BigShr(M, drop), IF RoundsUp(M, drop, sticky) THEN <<1>> ELSE <<>>)

\* nothing is discarded when the unit 2^q of the result is not above 2^e
RoundAt(s, M, e, sticky, q) ==
    Finish(s, IF q <= e THEN M ELSE RoundedShr(M, q - e, sticky), Max(q, e))

\* the double nearest to s * (M + f) * 2^e, where 0 <= f < 1 and f > 0 iff
\* sticky: 53 significant binary digits, fewer below 2^-1022 (the unit of the
\* result is 2^q, q >= -1074)
Round(s, M, e, sticky) ==
    IF M = <<>> THEN Zero
    ELSE RoundAt(s, M, e, sticky, Max(e + BigBitLen(M) - 53, -1074))

FNeg(a) == IF a[1] = "nan" \/ IsZero(a) THEN a ELSE <<a[1], -a[2], a[3], a[4]>>

\* sa * A + sb * B, the sign and the magnitude
SumSign(sa, A, sb, B) == IF sa = sb \/ BigCmp(A, B) >= 0 THEN sa ELSE sb

SumMagnitude(sa, A, sb, B) ==
    IF sa = sb THEN BigAdd(A, B)
    ELSE IF BigCmp(A, B) >= 0 THEN BigSub(A, B)
    ELSE BigSub(B, A)

AddAligned(sa, A, sb, B, e) ==
    Round(SumSign(sa, A, sb, B), SumMagnitude(sa, A, sb, B), e, FALSE)

AddNear(a, b, e) ==
    AddAligned(a[2], BigShl(a[3], a[4] - e), b[2], BigShl(b[3], b[4] - e), e)

\* the exponent above the leading binary digit: |a| < 2^Top(a)
Top(a) == a[4] + BigBitLen(a[3])

\* b as it counts in a + b.  An operand more than 60 binary digits below the
\* other only decides on which side of it the sum lies: it is replaced by
\* a power of two of its sign that is still below every rounding boundary.
Near(a, b) ==
    IF Top(a) - Top(b) > 60 THEN Num(b[2], <<1>>, Top(a) - 62) ELSE b

AddNonzero(a, b) == AddNear(a, b, Min(a[4], b[4]))

\* a + b for finite a, b
AddNum(a, b) ==
    IF IsZero(a) THEN b
    ELSE IF IsZero(b) THEN a
    ELSE AddNonzero(Near(b, a), Near(a, b))

\* a + b
FAdd(a, b) ==
    IF IsNaN(a) \/ IsNaN(b) THEN NaN
    ELSE IF IsInf(a) THEN (IF IsInf(b) /\ a[2] # b[2] THEN NaN ELSE a)
    ELSE IF IsInf(b) THEN b
    ELSE AddNum(a, b)

\* a - b
FSub(a, b) == FAdd(a, FNeg(b))

\* a * b
FMul(a, b) ==
    IF IsNaN(a) \/ IsNaN(b) THEN NaN
    ELSE IF IsInf(a) \/ IsInf(b)
    THEN (IF IsZero(a) \/ IsZero(b) THEN NaN ELSE Inf(a[2] * b[2]))
    ELSE Round(a[2] * b[2], BigMul(a[3], b[3]), a[4] + b[4], FALSE)

RoundQuotient(s, qr, e) == Round(s, qr[1], e, qr[2])

\* the double nearest to s * (n / d) * 2^e: the quotient is taken with at
\* least 55 binary digits, the remainder only says whether it is exact
DivRound(s, n, d, e, k) ==
    RoundQuotient(s, BigDivMod(BigShl(n, k), d), e - k)

DivNum(s, n, d, e) ==
    DivRound(s, n, d, e, Max(0, BigBitLen(d) + 55 - BigBitLen(n)))

\* a / b as numpy divides float64 values (x / 0 is an infinity or NaN)
FDiv(a, b) ==
    IF IsNaN(a) \/ IsNaN(b) THEN NaN
    ELSE IF IsInf(a) THEN (IF IsInf(b) THEN NaN ELSE Inf(a[2] * b[2]))
    ELSE IF IsInf(b) THEN Zero
    ELSE IF IsZero(b) THEN (IF IsZero(a) THEN NaN ELSE Inf(a[2]))
    ELSE IF IsZero(a) THEN Zero
    ELSE DivNum(a[2] * b[2], a[3], b[3], a[4] - b[4])

\* -1, 0, 1 as the sign of a float that is not NaN
Sign(a) == IF IsZero(a) THEN 0 ELSE a[2]

\* |a| < |b| for finite nonzero a, b
MagLess(a, b, e) ==
    IF Top(a) # Top(b) THEN Top(a) < Top(b)
    ELSE BigCmp(BigShl(a[3], a[4] - e), BigShl(b[3], b[4] - e)) < 0

LessNum(a, b) ==
    IF Sign(a) # Sign(b) THEN Sign(a) < Sign(b)
    ELSE IF Sign(a) = 0 THEN FALSE
    ELSE IF Sign(a) = 1 THEN MagLess(a, b, Min(a[4], b[4]))
    ELSE MagLess(b, a, Min(a[4], b[4]))

\* a < b; a comparison with NaN is False
FLess(a, b) ==
    IF IsNaN(a) \/ IsNaN(b) THEN FALSE
    ELSE IF IsInf(a) THEN a[2] = -1 /\ b # a
    ELSE IF IsInf(b) THEN b[2] = 1
    ELSE LessNum(a, b)

\* a <= b
FLeq(a, b) == ~IsNaN(a) /\ ~IsNaN(b) /\ ~FLess(b, a)

\* the characters float() ignores around a number
FloatSpace == {" ", "\t", "\n", "\r", "\f", "", "", " "}

\* each "_" of t stands between two digits
UnderscoresOk(t) ==
    \A i \in 1..Len(t) :
        t[i] = "_" => i > 1 /\ i < Len(t) /\ IsDigit(t[i - 1]) /\ IsDigit(t[i + 1])

WithoutUnderscores(t) == SelectSeq(t, LAMBDA c : c # "_")

\* t without a leading sign, and the sign
Unsigned(t) == IF t # <<>> /\ Head(t) \in {"-", "+"} THEN Tail(t) ELSE t

SignOf(t) == IF t # <<>> /\ Head(t) = "-" THEN -1 ELSE 1

Lower(c) ==
    CASE c = "A" -> "a" [] c = "F" -> "f" [] c = "I" -> "i"
      [] c = "N" -> "n" [] c = "T" -> "t" [] c = "Y" -> "y"
      [] OTHER -> c

LowerWord(u) == [i \in 1..Len(u) |-> Lower(u[i])]

IsInfWord(u) ==
    LowerWord(u) \in {<<"i", "n", "f">>, <<"i", "n", "f", "i", "n", "i", "t", "y">>}

IsNanWord(u) == LowerWord(u) = <<"n", "a", "n">>

\* the position of the exponent marker, 0 if there is none
ExpAt(u) ==
    IF \E i \in 1..Len(u) : u[i] \in {"e", "E"}
    THEN CHOOSE i \in 1..Len(u) :
            u[i] \in {"e", "E"} /\ \A j \in 1..(i - 1) : u[j] \notin {"e", "E"}
    ELSE 0

Mantissa(u) == IF ExpAt(u) = 0 THEN u ELSE SubSeq(u, 1, ExpAt(u) - 1)

Exponent(u) == SubSeq(u, ExpAt(u) + 1, Len(u))

IsDigits(x) == x # <<>> /\ \A i \in 1..Len(x) : IsDigit(x[i])

\* decimal digits with at most one "." and at least one digit
IsMantissa(m) ==
    /\ Cardinality({i \in 1..Len(m) : m[i] = "."}) <= 1
    /\ \A i \in 1..Len(m) : m[i] = "." \/ IsDigit(m[i])
    /\ \E i \in 1..Len(m) : IsDigit(m[i])

\* digits [. digits] [e [sign] digits] without a sign of its own
IsDecimal(u) ==
    /\ IsMantissa(Mantissa(u))
    /\ ExpAt(u) = 0 \/ IsDigits(Unsigned(Exponent(u)))

\* the number of digits after the "."
FracLen(m) ==
    IF \E i \in 1..Len(m) : m[i] = "."
    THEN Len(m) - (CHOOSE i \in 1..Len(m) : m[i] = ".")
    ELSE 0

\* the value of an exponent's digits; past 100000 the result is an infinity
\* or 0 whatever the digits
RECURSIVE ExpDigitsVal(_)
ExpDigitsVal(x) ==
    IF x = <<>> THEN 0
    ELSE Min(100000, 10 * ExpDigitsVal(SubSeq(x, 1, Len(x) - 1)) + DigitVal(x[Len(x)]))

\* the power of ten that scales the digits of the mantissa read as an integer
Exp10(u) ==
    (IF ExpAt(u) = 0 THEN 0
     ELSE SignOf(Exponent(u)) * ExpDigitsVal(Unsigned(Exponent(u))))
    - FracLen(Mantissa(u))

\* the digits of the mantissa from the first nonzero one
Significant(m) == LStrip(SelectSeq(m, IsDigit), {"0"})

\* the int written with at most four decimal digits
RECURSIVE DigitsVal(_)
DigitsVal(x) ==
    IF x = <<>> THEN 0
    ELSE 10 * DigitsVal(SubSeq(x, 1, Len(x) - 1)) + DigitVal(x[Len(x)])

\* the natural number written with the decimal digits x, four digits at a time
RECURSIVE BigFromDigits(_)
BigFromDigits(x) ==
    IF Len(x) <= 4 THEN BigFromNat(DigitsVal(x))
    ELSE BigAdd(BigMulSmall(BigFromDigits(SubSeq(x, 1, Len(x) - 4)), 10000),
                BigFromNat(DigitsVal(SubSeq(x, Len(x) - 3, Len(x)))))

RECURSIVE BigPow5(_)
BigSquare(a) == BigMul(a, a)

BigPow5(k) ==
    IF k = 0 THEN <<1>>
    ELSE IF k % 2 = 1 THEN BigMulSmall(BigPow5(k - 1), 5)
    ELSE Bind(BigPow5(k \div 2), BigSquare)

\* the double nearest to s * digits * 10^e10 (digits without leading zeros):
\* at 10^310 and above it is an infinity, below 10^-330 it is 0
ScaleUp(s, n, e10) == Round(s, BigMul(n, BigPow5(e10)), e10, FALSE)

ScaleDown(s, n, e10) == DivNum(s, n, BigPow5(-e10), e10)

DecimalValue(s, digits, e10) ==
    IF digits = <<>> THEN Zero
    ELSE IF Len(digits) + e10 > 310 THEN Inf(s)
    ELSE IF Len(digits) + e10 < -330 THEN Zero
    ELSE IF e10 >= 0
    THEN Bind(BigFromDigits(digits), LAMBDA n : ScaleUp(s, n, e10))
    ELSE Bind(BigFromDigits(digits), LAMBDA n : ScaleDown(s, n, e10))

ParseUnsigned(s, u) ==
    IF IsNanWord(u) THEN [ok |-> TRUE, val |-> NaN]
    ELSE IF IsInfWord(u) THEN [ok |-> TRUE, val |-> Inf(s)]
    ELSE IF IsDecimal(u)
    THEN [ok |-> TRUE, val |-> DecimalValue(s, Significant(Mantissa(u)), Exp10(u))]
    ELSE [ok |-> FALSE, val |-> NaN]

ParseSigned(t) == ParseUnsigned(SignOf(t), Unsigned(t))

ParseStripped(t) ==
    IF UnderscoresOk(t) THEN ParseSigned(WithoutUnderscores(t))
    ELSE [ok |-> FALSE, val |-> NaN]

\* float(s) on a str cell, as astype(float) calls it: surrounding whitespace
\* is ignored and a "_" may stand between two digits; then an optional sign
\* and "inf", "infinity", "nan" in any case or a decimal number with an
\* optional exponent.  Anything else raises ValueError (ok = FALSE).
ParseFloat(s) == Bind(StripChars(s, FloatSpace), ParseStripped)

\* ------------------------------------------------------------------ pandas

\* pd.DataFrame(list of lists): one row per record, columns 0 .. Width-1;
\* a record shorter than the widest one is padded with None.
Width(data) ==
    IF data = <<>> THEN 0
    ELSE CHOOSE w \in {Len(data[i]) : i \in 1..Len(data)} :
            \A i \in 1..Len(data) : Len(data[i]) <= w

HasColumn(data, k) == k < Width(data)

\* one cell of column k as a float: a None cell (the record is too short)
\* becomes NaN, a str cell is parsed
Cell(rec, k) ==
    IF Len(rec) > k THEN ParseFloat(rec[k + 1]) ELSE [ok |-> TRUE, val |-> NaN]

CellsResult(cells) ==
    [ok   |-> \A i \in 1..Len(cells) : cells[i].ok,
     vals |-> [i \in 1..Len(cells) |-> cells[i].val]]

\* data[k].astype(float) / data.iloc[:, k].astype(float) for an existing
\* column k (0-indexed): one unparsable cell raises ValueError for the column
AsFloat(data, k) == CellsResult([i \in 1..Len(data) |-> Cell(data[i], k)])

\* the float values of an existing, parsable column
Col(data, k) == AsFloat(data, k).vals

\* a variant in which a missing column reads as an all-None column
ColumnAsFloat_NoKeyError(data, k) == AsFloat(data, k)

\* the column as floats, or ok = FALSE for KeyError / IndexError / ValueError
ColumnAsFloat(data, k) ==
    IF HasColumn(data, k) THEN AsFloat(data, k)
    ELSE [ok |-> FALSE, vals |-> <<>>]

DropNa(vals) == SelectSeq(vals, LAMBDA v : ~IsNaN(v))

\* a NaN cell counts as 0 in a sum
ZeroFilled(vals) == [i \in 1..Len(vals) |-> IF IsNaN(vals[i]) THEN Zero ELSE vals[i]]

\* ((0 + v[1]) + v[2]) + ... + v[n]
RECURSIVE SumLeft(_, _)
SumLeft(v, n) == IF n = 0 THEN Zero ELSE FAdd(SumLeft(v, n - 1), v[n])

\* v[j] + v[j + 8] + ... + v[j + 8 (nb - 1)]
RECURSIVE LaneSum(_, _, _)
LaneSum(v, j, nb) ==
    IF nb = 1 THEN v[j] ELSE FAdd(LaneSum(v, j, nb - 1), v[8 * (nb - 1) + j])

\* ((r1 + r2) + (r3 + r4)) + ((r5 + r6) + (r7 + r8)) for the eight lanes r
RECURSIVE TreeSum(_, _, _)
TreeSum(r, first, last) ==
    IF first = last THEN r[first]
    ELSE FAdd(TreeSum(r, first, (first + last) \div 2),
              TreeSum(r, (first + last) \div 2 + 1, last))

\* res + v[first] + ... + v[last]
RECURSIVE AddTail(_, _, _, _)
AddTail(v, res, first, last) ==
    IF last < first THEN res ELSE FAdd(AddTail(v, res, first, last - 1), v[last])

\* eight running sums over the blocks of eight values, combined pairwise, then
\* the values left over
BlockSum(v) ==
    AddTail(v, TreeSum([j \in 1..8 |-> LaneSum(v, j, Len(v) \div 8)], 1, 8),
            8 * (Len(v) \div 8) + 1, Len(v))

\* where numpy halves more than 128 values: at a multiple of 8
HalfAt(n) == (n \div 2) - ((n \div 2) % 8)

\* numpy's sum of a float64 array: left to right below 8 values, in blocks
\* up to 128 values, by halves above
RECURSIVE PairwiseSum(_)
PairwiseSum(v) ==
    IF Len(v) < 8 THEN SumLeft(v, Len(v))
    ELSE IF Len(v) <= 128 THEN BlockSum(v)
    ELSE FAdd(PairwiseSum(SubSeq(v, 1, HalfAt(Len(v)))),
              PairwiseSum(SubSeq(v, HalfAt(Len(v)) + 1, Len(v))))

\* Series.sum(): NaN cells are skipped, the empty sum is 0
SeriesSum(vals) == PairwiseSum(ZeroFilled(vals))

\* the smaller and the larger of two floats
MinOf(x, y) == IF FLess(y, x) THEN y ELSE x

MaxOf(x, y) == IF FLess(x, y) THEN y ELSE x

\* the extreme of v[first..last], by halves
RECURSIVE MinSeq(_, _, _)
MinSeq(v, first, last) ==
    IF first = last THEN v[first]
    ELSE MinOf(MinSeq(v, first, (first + last) \div 2),
               MinSeq(v, (first + last) \div 2 + 1, last))

RECURSIVE MaxSeq(_, _, _)
MaxSeq(v, first, last) ==
    IF first = last THEN v[first]
    ELSE MaxOf(MaxSeq(v, first, (first + last) \div 2),
               MaxSeq(v, (first + last) \div 2 + 1, last))

MinOrNaN(v) == IF v = <<>> THEN NaN ELSE MinSeq(v, 1, Len(v))

MaxOrNaN(v) == IF v = <<>> THEN NaN ELSE MaxSeq(v, 1, Len(v))

\* the sum over all cells (NaN as 0) divided by the number of cells not NaN
MeanOrNaN(vals, count) ==
    IF count = 0 THEN NaN ELSE FDiv(SeriesSum(vals), FromInt(count))

\* Series.min() / max() / mean(): NaN cells are skipped, NaN if none is left
SeriesMin(vals) == MinOrNaN(DropNa(vals))

SeriesMax(vals) == MaxOrNaN(DropNa(vals))

SeriesMean(vals) == MeanOrNaN(vals, Len(DropNa(vals)))

\* the place of vals[k] in sorted order: after the smaller values and after
\* the equal ones before it
Rank(vals, k) ==
    1 + Cardinality({j \in 1..Len(vals) :
                        \/ FLess(vals[j], vals[k])
                        \/ j < k /\ vals[j] = vals[k]})

Ranks(vals) == [k \in 1..Len(vals) |-> Rank(vals, k)]

Ranked(vals, ranks) ==
    [i \in 1..Len(vals) |-> vals[CHOOSE k \in 1..Len(vals) : ranks[k] = i]]

\* the values in ascending order
SortVals(vals) == Ranked(vals, Ranks(vals))

\* the float 0.95 of quantile(0.95), 0x1.e666666666666p-1
Q95 == Num(1, <<13107, 26214, 19660, 121>>, -52)

\* floor(r) as an int, for a float 0 <= r < 2^30
FloorInt(r) ==
    IF r[4] >= 0 THEN BigToNat(BigShl(r[3], r[4])) ELSE BigToNat(BigShr(r[3], -r[4]))

\* the float 0.5
Half == Num(1, <<1>>, -1)

\* a + (b - a) * t, computed from b when t >= 0.5: b - (b - a) * (1 - t)
Lerp(a, b, t) ==
    IF FLeq(Half, t)
    THEN FSub(b, FMul(FSub(b, a), FSub(FromInt(1), t)))
    ELSE FAdd(a, FMul(FSub(b, a), t))

\* the values below and above the virtual index and its fractional part; at
\* the last index and beyond, both are the last value and the index before
\* it counts as -1
Interpolate(x, vi, prev) ==
    IF prev + 1 >= Len(x)
    THEN Lerp(x[Len(x)], x[Len(x)], FAdd(vi, FromInt(1)))
    ELSE Lerp(x[prev + 1], x[prev + 2], FSub(vi, FromInt(prev)))

QuantileAt(x, vi) == Interpolate(x, vi, FloorInt(vi))

\* the virtual index is (n - 1) * 0.95
QuantileSorted(x) ==
    IF x = <<>> THEN NaN ELSE QuantileAt(x, FMul(FromInt(Len(x) - 1), Q95))

\* Series.quantile(0.95): numpy's linear interpolation on the sorted values
\* that are not NaN
Quantile95(vals) == Bind(SortVals(DropNa(vals)), QuantileSorted)

\* ------------------------------------------------------------------ reducers

ZeroTuple12 == [i \in 1..12 |-> Zero]

ZeroTuple5 == [i \in 1..5 |-> Zero]

\* a variant guarding the division with E != 0
VpERatio_NonZero(VP, E) ==
    IF E # Zero /\ ~IsNaN(E) THEN FMul(FDiv(VP, E), FromInt(100)) ELSE Zero

\* (VP / E) * 100 if E > 0 else 0
VpERatio(VP, E) ==
    IF FLess(Zero, E) THEN FMul(FDiv(VP, E), FromInt(100)) ELSE Zero

\* the LPAR columns the AIX reducer reads, and the ones the Linux reducer reads
AixColumns == {2, 3, 5, 6, 7, 8, 12}

LinuxColumns == {2, 4, 8, 10, 13, 16, 21}

\* an expression of the try block raises (KeyError, ValueError)
AixRaises(data) == \E k \in AixColumns : ~ColumnAsFloat(data, k).ok

LinuxRaises(data) == \E k \in LinuxColumns : ~ColumnAsFloat(data, k).ok

\* avg = total / count if count > 0 else 0
Avg(total, count) == IF count > 0 THEN FDiv(total, FromInt(count)) ELSE Zero

\* return (count, VP, E, vp_e_ratio, poolCPU, poolIdle, W, cap, total, min_cpu, avg, max_cpu)
MetricTuple(count, total, max_cpu, min_cpu, VP, E, poolCPU, poolIdle, W, cap) ==
    <<FromInt(count), VP, E, VpERatio(VP, E), poolCPU, poolIdle, W, cap,
      total, min_cpu, Avg(total, count), max_cpu>>

calculate_aix_metrics(data) ==
    IF AixRaises(data)
    THEN ZeroTuple12
    ELSE MetricTuple(Len(data),
                     SeriesSum(Col(data, 2)),
                     SeriesMax(Col(data, 2)),
                     SeriesMin(Col(data, 2)),
                     SeriesMin(Col(data, 3)),
                     SeriesMin(Col(data, 6)),
                     SeriesMin(Col(data, 5)),
                     SeriesMin(Col(data, 8)),
                     SeriesMin(Col(data, 7)),
                     SeriesMin(Col(data, 12)))

DivEach(vals, d) == [i \in 1..Len(vals) |-> FDiv(vals[i], FromInt(d))]

calculate_linux_metrics(data) ==
    IF LinuxRaises(data)
    THEN ZeroTuple12
    ELSE MetricTuple(Len(data),
                     SeriesSum(Col(data, 2)),
                     SeriesMax(Col(data, 2)),
                     SeriesMin(Col(data, 2)),
                     SeriesSum(Col(data, 13)),
                     SeriesSum(Col(data, 10)),
                     SeriesSum(DivEach(Col(data, 8), 100)),
                     SeriesSum(Col(data, 21)),
                     SeriesSum(Col(data, 16)),
                     SeriesSum(Col(data, 4)))

\* used = column a - column b, cell by cell
Minus(x, y) == [i \in 1..Len(x) |-> FSub(x[i], y[i])]

\* the columns of `used`: AIX col6 - col4, Linux col2 - col7
UsedPlus(os) == IF os = "AIX" THEN 6 ELSE 2

UsedMinus(os) == IF os = "AIX" THEN 4 ELSE 7

\* an expression of the try block raises (IndexError, ValueError)
MemoryRaises(mem_df, os) ==
    \E k \in {UsedPlus(os), UsedMinus(os)} : ~ColumnAsFloat(mem_df, k).ok

\* return (len(mem_df), min_used, avg_used, max_used, percentile_used), in GB
MemoryTuple(count, used) ==
    <<FromInt(count),
      FDiv(SeriesMin(used), FromInt(1024)),
      FDiv(SeriesMean(used), FromInt(1024)),
      FDiv(SeriesMax(used), FromInt(1024)),
      FDiv(Quantile95(used), FromInt(1024))>>

calculate_memory_metrics(mem_df, os) ==
    IF MemoryRaises(mem_df, os)
    THEN ZeroTuple5
    ELSE Bind(Minus(Col(mem_df, UsedPlus(os)), Col(mem_df, UsedMinus(os))),
              LAMBDA used : MemoryTuple(Len(mem_df), used))

\* ------------------------------------------------------------------ literals

sAAA_AIX == <<"A", "A", "A", ",", "A", "I", "X">>

sLPAR_T == <<"L", "P", "A", "R", ",", "T">>

sPROC_T == <<"P", "R", "O", "C", ",", "T">>

sMEM_T == <<"M", "E", "M", ",", "T">>

sAAA_date == <<"A", "A", "A", ",", "d", "a", "t", "e">>

s_lparname == <<"l", "p", "a", "r", "n", "a", "m", "e">>

sSystemModel == <<"S", "y", "s", "t", "e", "m", " ", "M", "o", "d", "e", "l", ":">>

sMachineSerial == <<"M", "a", "c", "h", "i", "n", "e", " ", "S", "e", "r", "i", "a", "l", " ", "N", "u", "m", "b", "e", "r", ":">>

sProcessorType == <<"P", "r", "o", "c", "e", "s", "s", "o", "r", " ", "T", "y", "p", "e", ":">>

sNA == <<"N", "/", "A">>

kDate == "Date"

kLparName == "LPAR Name"

kSystemModel == "System Model"

kMachineSerial == "Machine Serial Number"

kProcessorType == "Processor Type"

\* ------------------------------------------------------------------ header

\* system_info[key] = value
DictSet(d, key, value) ==
    [k \in (DOMAIN d) \cup {key} |-> IF k = key THEN value ELSE d[k]]

\* system_info.get(key, default)
DictGet(d, key, default) == IF key \in DOMAIN d THEN d[key] ELSE default

Last(parts) == parts[Len(parts)]

\* line.split(":")[-1].strip().strip('"')
AfterLastColon(line) == StripChars(Strip(Last(Split(line, ":"))), {"\""})

\* parts[n] (0-indexed): the element, or ok = FALSE for IndexError
Subscript(parts, n) ==
    IF Len(parts) > n THEN [ok |-> TRUE, val |-> parts[n + 1]]
    ELSE [ok |-> FALSE, val |-> <<>>]

Stripped(r) == [ok |-> r.ok, val |-> Strip(r.val)]

\* system_info[key] = <the subscripted value>, unless the subscript raised
Assign(system_info, key, r) ==
    IF r.ok THEN [ok |-> TRUE, info |-> DictSet(system_info, key, r.val)]
    ELSE [ok |-> FALSE, info |-> system_info]

\* parse_system_info(line, system_info): the updated dict, or ok = FALSE when
\* the subscript of a split raises IndexError
parse_system_info(line, system_info) ==
    IF Contains(line, sAAA_date)
    THEN Assign(system_info, kDate, Subscript(Split(line, ","), 2))
    ELSE IF Contains(line, s_lparname)
    THEN Assign(system_info, kLparName, Stripped(Subscript(Split(line, ","), 3)))
    ELSE IF Contains(line, sSystemModel)
    THEN Assign(system_info, kSystemModel,
                Subscript(Split(AfterLastColon(line), ","), 1))
    ELSE IF Contains(line, sMachineSerial)
    THEN Assign(system_info, kMachineSerial,
                [ok |-> TRUE, val |-> AfterLastColon(line)])
    ELSE IF Contains(line, sProcessorType)
    THEN Assign(system_info, kProcessorType,
                Subscript(Split(AfterLastColon(line), "_"), 1))
    ELSE [ok |-> TRUE, info |-> system_info]

\* ------------------------------------------------------------------ pipeline

\* which branch of the if / elif chain of the line scan takes the line
Classify(line) ==
    IF StartsWith(line, sAAA_AIX) THEN "AIX"
    ELSE IF StartsWith(line, sLPAR_T) THEN "LPAR"
    ELSE IF StartsWith(line, sPROC_T) THEN "PROC"
    ELSE IF StartsWith(line, sMEM_T) THEN "MEM"
    ELSE "other"

\* parts = line.strip().split(',')
Parts(line) == Split(Strip(line), ",")

\* a variant with the PROC threshold for every kind
MinFields_Three(kind) == 3

\* the least number of fields of a retained LPAR / PROC / MEM line
MinFields(kind) == CASE kind = "LPAR" -> 14 [] kind = "PROC" -> 3 [] kind = "MEM" -> 8

\* if len(parts) >= 14 / 3 / 8
Retained(kind, parts) == Len(parts) >= MinFields(kind)

\* data.append(parts) in the branch of `kind` when the line is retained
Collect(data, mine, kind, parts) ==
    IF kind = mine /\ Retained(kind, parts) THEN Append(data, parts) ELSE data

\* a variant in which the MEM branch warns like the other two
ShortLineWarning_Mem(kind) ==
    CASE kind = "LPAR" -> <<"Warning: LPAR line has unexpected format">>
      [] kind = "PROC" -> <<"Warning: PROC line has unexpected format">>
      [] kind = "MEM"  -> <<"Warning: MEM line has unexpected format">>

\* the message printed for a discarded short line: the MEM branch has no else
ShortLineWarning(kind) ==
    CASE kind = "LPAR" -> <<"Warning: LPAR line has unexpected format">>
      [] kind = "PROC" -> <<"Warning: PROC line has unexpected format">>
      [] kind = "MEM"  -> <<>>

\* a variant that ignores the OS flavor
metrics_func_AlwaysLinux(os, lpar_df) == calculate_linux_metrics(lpar_df)

\* metrics_func = calculate_aix_metrics if os_type == 'AIX' else calculate_linux_metrics
metrics_func(os, lpar_df) ==
    IF os = "AIX" THEN calculate_aix_metrics(lpar_df)
    ELSE calculate_linux_metrics(lpar_df)

cpu_usage_col_index(os) == IF os = "AIX" THEN 2 ELSE 10

\* the 95th percentile of column k as floats; ok = FALSE when astype raises
ColumnQuantile(data, k) ==
    IF ColumnAsFloat(data, k).ok
    THEN [ok |-> TRUE, val |-> Quantile95(Col(data, k))]
    ELSE [ok |-> FALSE, val |-> NaN]

\* rq: np.nan without PROC data, else the 95th percentile of column 2
RunQueue(proc_data) ==
    IF proc_data = <<>> THEN [ok |-> TRUE, val |-> NaN]
    ELSE ColumnQuantile(proc_data, 2)

\* percentile_cpu
PercentileCpu(os, lpar_df) == ColumnQuantile(lpar_df, cpu_usage_col_index(os))

\* the five identity fields of the row
InfoFields(system_info) ==
    <<DictGet(system_info, kDate, sNA),
      DictGet(system_info, kLparName, sNA),
      DictGet(system_info, kSystemModel, sNA),
      DictGet(system_info, kMachineSerial, sNA),
      DictGet(system_info, kProcessorType, sNA)>>

\* the value process_nmon_file returns: None, or a row of 24 values
NoneResult == [none |-> TRUE, row |-> <<>>]

RowResult(row) == [none |-> FALSE, row |-> row]

\* what the metric reducer and the memory reducer print when they fall back
MetricsMessage(os, lpar_df) ==
    IF os = "AIX"
    THEN (IF AixRaises(lpar_df) THEN <<"Error calculating AIX metrics">> ELSE <<>>)
    ELSE (IF LinuxRaises(lpar_df) THEN <<"Error calculating Linux metrics">> ELSE <<>>)

MemoryMessage(os, mem_df) ==
    IF MemoryRaises(mem_df, os) THEN <<"Error calculating memory metrics">> ELSE <<>>

\* the return of process_nmon_file once its parts are computed, in the order
\* of the code: metrics, rq, percentile_cpu, memory_metrics
Assemble(info, m, mmsg, rq, pc95, mm, memmsg) ==
    IF ~rq.ok \/ ~pc95.ok
    THEN [raised |-> TRUE, metrics |-> m, row |-> <<>>,
          msgs |-> mmsg \o <<"Error processing">>]
    ELSE [raised |-> FALSE, metrics |-> m,
          row |-> InfoFields(info) \o m \o <<pc95.val, rq.val>> \o mm,
          msgs |-> mmsg \o memmsg]

\* process_nmon_file after the line scan with LPAR data present: the row, or
\* raised = TRUE when an exception reaches the except clause of the function
\* (the run-queue and CPU percentiles are computed outside any reducer's try)
Reduce(os, lpar_df, proc_df, mem_df, info) ==
    Assemble(info,
             metrics_func(os, lpar_df), MetricsMessage(os, lpar_df),
             RunQueue(proc_df),
             PercentileCpu(os, lpar_df),
             calculate_memory_metrics(mem_df, os), MemoryMessage(os, mem_df))

\* a variant that collects every result
Truthy_Always(result) == TRUE

\* if result: (None and the empty tuple are falsy)
Truthy(result) == ~result.none /\ result.row # <<>>

\* main: all_results.append((filename,) + result) when the result is truthy
MainCollect(all, filename, result) ==
    IF Truthy(result) THEN Append(all, <<filename>> \o result.row) ELSE all

\* ------------------------------------------------------------------ inputs

\* an LPAR record of n fields: the columns the reducers read carry the given
\* strings, the other columns fixed numbers
LparFields(c2, c3, c6, c10, c13, n) ==
    [k \in 1..n |->
        CASE k = 1  -> <<"L", "P", "A", "R">>
          [] k = 2  -> <<"T", "0", "0", "0", "1">>
          [] k = 3  -> c2
          [] k = 4  -> c3
          [] k = 5  -> <<"1">>
          [] k = 6  -> <<"6">>
          [] k = 7  -> c6
          [] k = 8  -> <<"1", "2", "8">>
          [] k = 9  -> <<"1", "5", "0">>
          [] k = 11 -> c10
          [] k = 14 -> c13
          [] k = 17 -> <<"6", "4">>
          [] k = 22 -> <<"7">>
          [] OTHER  -> <<"0">>]

\* a line of the file as readlines() returns it
Line(fields) == Join(fields, ",") \o <<"\n">>

LineSig == <<"A", "A", "A", ",", "A", "I", "X", ",", "7", ".", "2", "\n">>

LineLparA == Line(LparFields(<<"5">>, <<"2">>, <<"4">>, <<"5", "0">>, <<"2">>, 14))

LineLparB == Line(LparFields(<<"2", "0">>, <<"3">>, <<"0", ".", "5">>, <<"8">>, <<"3">>, 22))

LineLparExp ==
    Line(LparFields(<<"1", "e", "1">>, <<"2">>, <<" ", "0", ".", "1">>, <<"5", "0">>, <<"2">>, 14))

LineLparBad == Line(LparFields(<<"7">>, <<"x">>, <<"4">>, <<"5", "0">>, <<"x">>, 14))

LineLparShort == <<"L", "P", "A", "R", ",", "T", "0", "0", "0", "2", ",", "5", "\n">>

LineProc == <<"P", "R", "O", "C", ",", "T", "0", "0", "0", "1", ",", "3", ",", "1", "\n">>

LineProcBad == <<"P", "R", "O", "C", ",", "T", "0", "0", "0", "2", ",", ",", "1", "\n">>

LineProcShort == <<"P", "R", "O", "C", ",", "T", "0", "0", "0", "3", "\n">>

LineMem == <<"M", "E", "M", ",", "T", "0", "0", "0", "1", ",", "4", "0", "9", "6", ",", "0", ",", "1", "0", "2", "4", ",", "0", ",", "3", "0", "7", "2", ",", "1", "0", "2", "4", "\n">>

LineMemBad == <<"M", "E", "M", ",", "T", "0", "0", "0", "2", ",", "x", ",", "0", ",", "1", "0", "2", "4", ",", "0", ",", "x", ",", "1", "0", "2", "4", "\n">>

LineMemShort == <<"M", "E", "M", ",", "T", "0", "0", "0", "3", ",", "4", "0", "9", "6", "\n">>

LineDate == <<"A", "A", "A", ",", "d", "a", "t", "e", ",", "2", "5", "-", "D", "E", "C", "-", "2", "0", "2", "3", "\n">>

LineDateBad == <<"A", "A", "A", ",", "d", "a", "t", "e", "\n">>

LineLparName == <<"A", "A", "A", ",", "x", ",", "l", "p", "a", "r", "n", "a", "m", "e", ",", " ", "w", "e", "b", "1", " ", "\n">>

LineModel == <<"B", "B", "B", "P", ",", "1", ",", "\"", "S", "y", "s", "t", "e", "m", " ", "M", "o", "d", "e", "l", ":", " ", "I", "B", "M", ",", "9", "1", "1", "7", "-", "M", "M", "A", "\"", "\n">>

LineModelBad == <<"B", "B", "B", "P", ",", "1", ",", "\"", "S", "y", "s", "t", "e", "m", " ", "M", "o", "d", "e", "l", ":", " ", "I", "B", "M", "\"", "\n">>

LineProcType == <<"B", "B", "B", "P", ",", "2", ",", "\"", "P", "r", "o", "c", "e", "s", "s", "o", "r", " ", "T", "y", "p", "e", ":", " ", "P", "o", "w", "e", "r", "P", "C", "_", "P", "O", "W", "E", "R", "8", "\"", "\n">>

LineSerial == <<"B", "B", "B", "P", ",", "3", ",", "\"", "M", "a", "c", "h", "i", "n", "e", " ", "S", "e", "r", "i", "a", "l", " ", "N", "u", "m", "b", "e", "r", ":", " ", "6", "5", "A", "\"", "\n">>

LineOther == <<"Z", "Z", "Z", "Z", ",", "T", "0", "0", "0", "1", ",", "0", "0", ":", "0", "0", ":", "0", "1", "\n">>

\* the lines the files of the single-file specification are made of
Lines ==
    {LineSig, LineLparA, LineLparB, LineLparExp, LineLparBad, LineLparShort,
     LineProc, LineProcBad, LineProcShort, LineMem, LineMemBad, LineMemShort,
     LineDate, LineDateBad, LineLparName, LineModelBad, LineOther}

Files == UNION {[1..n -> Lines] : n \in 0..MaxLines}

\* the files of the batch specification
BatchFiles ==
    {<<LineSig, LineLparA, LineLparName, LineMem>>,
     <<LineLparA>>,
     <<LineLparB, LineDate, LineProc, LineSerial>>,
     <<LineLparA, LineLparName, LineMem, LineSig>>,
     <<LineLparB, LineSig, LineProcType>>,
     <<LineProc, LineModel>>,
     <<LineDateBad, LineLparA>>,
     <<LineLparB, LineProcBad>>}

\* the LPAR collections of the reducer specification
NumTokens ==
    {<<"-", "1">>, <<"0">>, <<"1", "e", "1">>, <<" ", "0", ".", "1">>,
     <<"0", ".", "2">>, <<"-", "0", ".", "3">>}

LparRecords ==
    {LparFields(<<"2", "0">>, <<"3">>, e, e, <<"3">>, 22) : e \in NumTokens}
    \cup {LparFields(<<"5">>, <<"2">>, e, e, <<"2">>, 14) : e \in {<<"4">>, <<"-", "1">>}}
    \cup {LparFields(<<"5">>, <<"x">>, <<"4">>, <<"4">>, <<"x">>, 22),
          LparFields(<<>>, <<"2">>, <<"4">>, <<"4">>, <<"2">>, 14)}

Collections == UNION {[1..n -> LparRecords] : n \in 0..MaxRecs}

\* ------------------------------------------------------------------ state

VARIABLES
    pc,           \* "main": between two files; "scan": in the for loop over
                  \* the lines; "done": the table is written
    fileno,       \* directory entries main has gone through
    lines,        \* process_nmon_file: lines
    idx,          \* position of the for loop in lines (1-based)
    os_type,      \* process_nmon_file: os_type
    lpar_data,    \* process_nmon_file: lpar_data (the reducers' data)
    proc_data,    \* process_nmon_file: proc_data
    mem_data,     \* process_nmon_file: mem_data
    system_info,  \* process_nmon_file: system_info
    metrics,      \* process_nmon_file: metrics
    console,      \* the messages printed so far
    history,      \* the calls of process_nmon_file so far: file, lines, result
    all_results   \* main: all_results

vars == <<pc, fileno, lines, idx, os_type, lpar_data, proc_data, mem_data,
          system_info, metrics, console, history, all_results>>

locals == <<lines, idx, os_type, lpar_data, proc_data, mem_data, system_info>>

EmptyDict == [k \in {} |-> <<>>]

\* a variant in which the flavor of the previous file is kept
DefaultOsType_Leak == os_type

\* os_type = 'Linux'  # Default OS type
DefaultOsType == "Linux"

\* main before its loop; the locals of process_nmon_file do not exist yet and
\* start at the values every call gives them
Init ==
    /\ pc = "main"
    /\ fileno = 0
    /\ lines = <<>>
    /\ idx = 0
    /\ os_type = "Linux"
    /\ lpar_data = <<>>
    /\ proc_data = <<>>
    /\ mem_data = <<>>
    /\ system_info = EmptyDict
    /\ metrics = ZeroTuple12
    /\ console = <<>>
    /\ history = <<>>
    /\ all_results = <<>>

\* process_nmon_file returns `result` after printing `msgs`, and main collects it
Returns(result, msgs, readable) ==
    /\ pc' = "main"
    /\ fileno' = fileno + 1
    /\ console' = console \o msgs
    /\ history' = Append(history, [file |-> fileno + 1, readable |-> readable,
                                   lines |-> IF readable THEN lines ELSE <<>>,
                                   result |-> result])
    /\ all_results' = MainCollect(all_results, fileno + 1, result)

\* main reaches a .nmon entry; open() and readlines() succeed
OpenFile(F, limit) ==
    /\ pc = "main"
    /\ fileno < limit
    /\ \E f \in F : lines' = f
    /\ idx' = 1
    /\ os_type' = DefaultOsType
    /\ lpar_data' = <<>>
    /\ proc_data' = <<>>
    /\ mem_data' = <<>>
    /\ system_info' = EmptyDict
    /\ pc' = "scan"
    /\ UNCHANGED <<fileno, metrics, console, history, all_results>>

\* main reaches a .nmon entry; open() or readlines() raises
OpenFails(limit) ==
    /\ pc = "main"
    /\ fileno < limit
    /\ Returns(NoneResult, <<"Error processing">>, FALSE)
    /\ UNCHANGED <<locals, metrics>>

\* main reaches an entry whose name does not end with .nmon
SkipEntry(limit) ==
    /\ pc = "main"
    /\ fileno < limit
    /\ fileno' = fileno + 1
    /\ UNCHANGED <<pc, locals, metrics, console, history, all_results>>

\* the next iteration of the for loop takes a line of the given kinds
AtLine(kinds) == pc = "scan" /\ idx <= Len(lines) /\ Classify(lines[idx]) \in kinds

\* if line.startswith('AAA,AIX'): os_type = 'AIX'
ScanSignature ==
    /\ AtLine({"AIX"})
    /\ os_type' = "AIX"
    /\ idx' = idx + 1
    /\ UNCHANGED <<pc, fileno, lines, lpar_data, proc_data, mem_data,
                   system_info, metrics, console, history, all_results>>

\* the LPAR, PROC and MEM branches
ScanRecord ==
    /\ AtLine({"LPAR", "PROC", "MEM"})
    /\ \E kind \in {Classify(lines[idx])}, parts \in {Parts(lines[idx])} :
          /\ lpar_data' = Collect(lpar_data, "LPAR", kind, parts)
          /\ proc_data' = Collect(proc_data, "PROC", kind, parts)
          /\ mem_data' = Collect(mem_data, "MEM", kind, parts)
          /\ console' = IF Retained(kind, parts) THEN console
                        ELSE console \o ShortLineWarning(kind)
    /\ idx' = idx + 1
    /\ UNCHANGED <<pc, fileno, lines, os_type, system_info, metrics,
                   history, all_results>>

\* the else branch: parse_system_info(line, system_info); an exception it
\* raises ends process_nmon_file in its except clause
ScanHeader ==
    /\ AtLine({"other"})
    /\ \E r \in {parse_system_info(lines[idx], system_info)} :
          IF r.ok
          THEN /\ system_info' = r.info
               /\ idx' = idx + 1
               /\ UNCHANGED <<pc, fileno, lines, os_type, lpar_data, proc_data,
                              mem_data, metrics, console, history, all_results>>
          ELSE /\ Returns(NoneResult, <<"Error processing">>, TRUE)
               /\ UNCHANGED <<locals, metrics>>

\* one iteration of the for loop over the lines
ScanLine == ScanSignature \/ ScanRecord \/ ScanHeader

\* the loop is over and lpar_data is empty
NoLparData ==
    /\ pc = "scan"
    /\ idx > Len(lines)
    /\ lpar_data = <<>>
    /\ Returns(NoneResult, <<"Warning: No LPAR data found">>, TRUE)
    /\ UNCHANGED <<locals, metrics>>

\* the loop is over and lpar_data is not empty: the rest of process_nmon_file
ReduceFile ==
    /\ pc = "scan"
    /\ idx > Len(lines)
    /\ lpar_data # <<>>
    /\ \E r \in {Reduce(os_type, lpar_data, proc_data, mem_data, system_info)} :
          /\ metrics' = r.metrics
          /\ Returns(IF r.raised THEN NoneResult ELSE RowResult(r.row), r.msgs, TRUE)
    /\ UNCHANGED locals

\* main after the loop: the table is built from all_results and written
WriteTable ==
    /\ pc = "main"
    /\ pc' = "done"
    /\ UNCHANGED <<fileno, locals, metrics, console, history, all_results>>

\* one file, made of any lines of Lines
Next ==
    \/ OpenFile(Files, 1)
    \/ OpenFails(1)
    \/ SkipEntry(1)
    \/ ScanLine
    \/ NoLparData
    \/ ReduceFile
    \/ WriteTable

Spec == Init /\ [][Next]_vars

\* a directory of up to MaxFiles entries, each one of BatchFiles
NextBatch ==
    \/ OpenFile(BatchFiles, MaxFiles)
    \/ OpenFails(MaxFiles)
    \/ SkipEntry(MaxFiles)
    \/ ScanLine
    \/ NoLparData
    \/ ReduceFile
    \/ WriteTable

SpecBatch == Init /\ [][NextBatch]_vars

\* the reducers as functions of an LPAR collection
InitReducer ==
    /\ pc = "reducer"
    /\ lpar_data \in Collections
    /\ fileno = 0
    /\ lines = <<>>
    /\ idx = 0
    /\ os_type = "Linux"
    /\ proc_data = <<>>
    /\ mem_data = <<>>
    /\ system_info = EmptyDict
    /\ metrics = <<>>
    /\ console = <<>>
    /\ history = <<>>
    /\ all_results = <<>>

\* calculate_aix_metrics(data): the tuple returned, and the message of the
\* except clause when the try raised
ApplyAix ==
    /\ pc = "reducer"
    /\ metrics' = calculate_aix_metrics(lpar_data)
    /\ console' = console \o MetricsMessage("AIX", lpar_data)
    /\ pc' = "aix"
    /\ UNCHANGED <<fileno, locals, history, all_results>>

\* calculate_linux_metrics(data), likewise
ApplyLinux ==
    /\ pc = "reducer"
    /\ metrics' = calculate_linux_metrics(lpar_data)
    /\ console' = console \o MetricsMessage("Linux", lpar_data)
    /\ pc' = "linux"
    /\ UNCHANGED <<fileno, locals, history, all_results>>

NextReducer == ApplyAix \/ ApplyLinux

SpecReducer == InitReducer /\ [][NextReducer]_vars

\* ------------------------------------------------------------------ claims

\* the number of comma-separated fields of a stripped line
FieldCount(line) == Len(Split(Strip(line), ","))

IsSig(line) == StartsWith(line, sAAA_AIX)

HasSignature(ls) == \E i \in 1..Len(ls) : IsSig(ls[i])

\* the flavor a file must be given: AIX iff some line carries the signature
FlavorOf(ls) == IF HasSignature(ls) THEN "AIX" ELSE "Linux"

Fields(sel) == [i \in 1..Len(sel) |-> Split(Strip(sel[i]), ",")]

\* the records of the lines that start with `prefix` and have at least n fields
KeptRecords(ls, prefix, n) ==
    Fields(SelectSeq(ls, LAMBDA l : StartsWith(l, prefix) /\ FieldCount(l) >= n))

KeptLpar(ls) == KeptRecords(ls, sLPAR_T, 14)

KeptProc(ls) == KeptRecords(ls, sPROC_T, 3)

KeptMem(ls) == KeptRecords(ls, sMEM_T, 8)

ShortOf(line, prefix, n) == StartsWith(line, prefix) /\ FieldCount(line) < n

\* a line the scan hands to parse_system_info
IsHeaderLine(line) ==
    ~(\E p \in {sAAA_AIX, sLPAR_T, sPROC_T, sMEM_T} : StartsWith(line, p))

\* a header line on which the extraction subscripts past the end of a split
HeaderRaises(line) == IsHeaderLine(line) /\ ~parse_system_info(line, EmptyDict).ok

\* the calls of process_nmon_file that returned a row
Returned(i) == i \in 1..Len(history) /\ ~history[i].result.none

RowOf(i) == history[i].result.row

\* positions of the row: metrics 6..17 (Min CPU 15, Max CPU 17), the CPU
\* percentile 18, the run queue 19, memory 20..24
MetricsOf(row) == SubSeq(row, 6, 17)

MemoryOf(row) == SubSeq(row, 20, 24)

\* system_info after the header lines of ls, none of which raises
RECURSIVE HeaderInfo(_, _)
HeaderInfo(ls, info) ==
    IF ls = <<>> THEN info
    ELSE IF IsHeaderLine(Head(ls))
    THEN HeaderInfo(Tail(ls), parse_system_info(Head(ls), info).info)
    ELSE HeaderInfo(Tail(ls), info)

\* C1: when any line of the file starts with 'AAA,AIX', the row's metrics are
\* the AIX reducer's over ALL retained LPAR records of the file, its CPU
\* percentile is taken from column 2 of all of them, and its memory fields use
\* col6 - col4 over all retained MEM records; the run queue and the identity
\* fields are those of the file's PROC and header lines.  Nothing in the row
\* depends on where the signature line stands.
C1_SignatureAnywhere ==
    \A i \in 1..Len(history) :
        (Returned(i) /\ HasSignature(history[i].lines)) =>
            /\ MetricsOf(RowOf(i)) = calculate_aix_metrics(KeptLpar(history[i].lines))
            /\ RowOf(i)[18] = Quantile95(Col(KeptLpar(history[i].lines), 2))
            /\ MemoryOf(RowOf(i))
                 = calculate_memory_metrics(KeptMem(history[i].lines), "AIX")
            /\ RowOf(i)[19] = RunQueue(KeptProc(history[i].lines)).val
            /\ SubSeq(RowOf(i), 1, 5) = InfoFields(HeaderInfo(history[i].lines, EmptyDict))

\* a returned file whose signature line comes after an LPAR and a MEM line
C1_Witness ==
    \E i \in 1..Len(history) :
        /\ Returned(i)
        /\ Len(history[i].lines) = 3
        /\ StartsWith(history[i].lines[1], sLPAR_T)
        /\ StartsWith(history[i].lines[2], sMEM_T)
        /\ IsSig(history[i].lines[3])
        /\ RowOf(i)[6] = FromInt(1)
        /\ RowOf(i)[20] = FromInt(1)

\* C2: a file without any line that starts with 'LPAR,T' and has at least 14
\* fields returns None and gets no row in all_results.
C2_NoLparNoRow ==
    \A i \in 1..Len(history) :
        KeptLpar(history[i].lines) = <<>> =>
            /\ history[i].result.none
            /\ \A j \in 1..Len(all_results) : all_results[j][1] # history[i].file

\* a file of a short LPAR line, a PROC line and a MEM line was processed
C2_Witness ==
    \E i \in 1..Len(history) :
        /\ history[i].readable
        /\ history[i].result.none
        /\ \E a, b, c \in 1..Len(history[i].lines) :
              /\ ShortOf(history[i].lines[a], sLPAR_T, 14)
              /\ KeptProc(<<history[i].lines[b]>>) # <<>>
              /\ KeptMem(<<history[i].lines[c]>>) # <<>>
        /\ all_results = <<>>

\* a field float() rejects
NonNumeric(field) == field = <<>> \/ (\E i \in 1..Len(field) : field[i] = "x")

BadCell(data, cols) ==
    \E i \in 1..Len(data) : \E k \in cols :
        Len(data[i]) > k /\ NonNumeric(data[i][k + 1])

\* C3: both reducers return exactly 12 values for every LPAR collection, and
\* the 12 zeros for the empty collection, for a collection none of whose
\* records reaches the highest column read (21 for Linux), and for a
\* collection with a non-numeric field in a column the reducer reads.
C3_TwelveValues ==
    /\ pc \in {"aix", "linux"} =>
          /\ Len(metrics) = 12
          /\ lpar_data = <<>> => metrics = ZeroTuple12
    /\ pc = "aix" =>
          (BadCell(lpar_data, {2, 3, 5, 6, 7, 8, 12}) => metrics = ZeroTuple12)
    /\ pc = "linux" =>
          /\ (\A i \in 1..Len(lpar_data) : Len(lpar_data[i]) < 22)
                => metrics = ZeroTuple12
          /\ BadCell(lpar_data, {2, 4, 8, 10, 13, 16, 21}) => metrics = ZeroTuple12

\* the Linux reducer has run on numeric records of 14 fields only, and its
\* except clause has printed its message
C3_Witness ==
    /\ pc = "linux"
    /\ console = <<"Error calculating Linux metrics">>
    /\ Len(lpar_data) = 2
    /\ \A i \in 1..2 : Len(lpar_data[i]) = 14
    /\ ~BadCell(lpar_data, 0..13)
    /\ metrics = ZeroTuple12

\* the rows main must have collected: one per call that returned a row
RowsOf(ok) == [i \in 1..Len(ok) |-> <<ok[i].file>> \o ok[i].result.row]

\* C4: whatever fails in a file, main goes on with the next entry, and
\* all_results holds exactly one row per file whose call returned a row, in
\* enumeration order, and none for a failed file.
C4_BatchContinues ==
    /\ all_results = RowsOf(SelectSeq(history, LAMBDA e : ~e.result.none))
    /\ \A i, j \in 1..Len(history) : i < j => history[i].file < history[j].file
    /\ pc \in {"main", "scan", "done"}
    /\ pc = "main" => Len(history) <= fileno
    /\ (pc = "main" /\ fileno < MaxFiles) => ENABLED OpenFile(BatchFiles, MaxFiles)

\* an unreadable file, then a file whose header raises, then a file with a row
C4_Witness ==
    /\ Len(history) = 3
    /\ ~history[1].readable
    /\ history[1].result.none
    /\ \E k \in 1..Len(history[2].lines) : HeaderRaises(history[2].lines[k])
    /\ history[2].result.none
    /\ ~history[3].result.none
    /\ Len(all_results) = 1
    /\ all_results[1][1] = history[3].file

ScanGoesOn ==
    /\ pc' = "scan"
    /\ idx' = idx + 1
    /\ UNCHANGED <<lpar_data, proc_data, mem_data, system_info>>

\* C5: in the line scan a short MEM line is discarded without a message, a
\* short LPAR line and a short PROC line with exactly one warning each; none
\* of them enters a collection or reaches parse_system_info.
C5_ShortLines ==
    [][(pc = "scan" /\ idx <= Len(lines)) =>
          /\ ShortOf(lines[idx], sMEM_T, 8) => (console' = console /\ ScanGoesOn)
          /\ ShortOf(lines[idx], sLPAR_T, 14) =>
                /\ console' = Append(console, "Warning: LPAR line has unexpected format")
                /\ ScanGoesOn
          /\ ShortOf(lines[idx], sPROC_T, 3) =>
                /\ console' = Append(console, "Warning: PROC line has unexpected format")
                /\ ScanGoesOn]_vars

\* a short MEM, a short LPAR and a short PROC line have been scanned
C5_Witness ==
    /\ pc = "scan"
    /\ idx = 4
    /\ ShortOf(lines[1], sMEM_T, 8)
    /\ ShortOf(lines[2], sLPAR_T, 14)
    /\ ShortOf(lines[3], sPROC_T, 3)
    /\ Len(console) = 2
    /\ lpar_data = <<>> /\ proc_data = <<>> /\ mem_data = <<>>
    /\ system_info = EmptyDict

\* C6: a numeric conversion failure in a reducer (metrics, run queue, memory)
\* is handled locally, so a file with retained LPAR data and headers that parse
\* still returns a row.
C6_LocalHandling ==
    \A i \in 1..Len(history) :
        ( /\ history[i].readable
          /\ KeptLpar(history[i].lines) # <<>>
          /\ \A k \in 1..Len(history[i].lines) : ~HeaderRaises(history[i].lines[k]) )
        => ~history[i].result.none

\* C7: a malformed header line raises nothing, so a file with retained LPAR
\* data whose percentile columns are numeric still returns a row.
C7_MalformedHeader ==
    \A i \in 1..Len(history) :
        ( /\ history[i].readable
          /\ KeptLpar(history[i].lines) # <<>>
          /\ RunQueue(KeptProc(history[i].lines)).ok
          /\ PercentileCpu(FlavorOf(history[i].lines), KeptLpar(history[i].lines)).ok )
        => ~history[i].result.none

\* the entitlement column of the records, as read by each reducer
Entitlements(data, k) == [i \in 1..Len(data) |-> ParseFloat(data[i][k + 1]).val]

\* C8: in the tuple of either reducer, VP:E is 0 when the aggregated
\* entitlement E is <= 0 and VP / E * 100 when E > 0, where E is the minimum
\* of column 6 (AIX) or the sum of column 10 (Linux) and the count is the
\* number of records in both branches.
C8_VpERatio ==
    /\ pc \in {"aix", "linux"} =>
          /\ FLeq(metrics[3], Zero) => metrics[4] = Zero
          /\ FLess(Zero, metrics[3]) =>
                metrics[4] = FMul(FDiv(metrics[2], metrics[3]), FromInt(100))
    /\ (pc = "aix" /\ metrics # ZeroTuple12) =>
          /\ metrics[1] = FromInt(Len(lpar_data))
          /\ \E i \in 1..Len(lpar_data) : Entitlements(lpar_data, 6)[i] = metrics[3]
          /\ \A i \in 1..Len(lpar_data) : FLeq(metrics[3], Entitlements(lpar_data, 6)[i])
    /\ (pc = "linux" /\ metrics # ZeroTuple12) =>
          /\ metrics[1] = FromInt(Len(lpar_data))
          /\ metrics[3] = SeriesSum(Entitlements(lpar_data, 10))

\* the Linux reducer has summed a negative entitlement with a non-zero VP
C8_Witness ==
    /\ pc = "linux"
    /\ metrics # ZeroTuple12
    /\ FLess(metrics[3], Zero)
    /\ FLess(Zero, metrics[2])
    /\ metrics[4] = Zero

\* C9: in every row whose metric reducer succeeded (Snapshots > 0),
\* Min CPU <= 95 Percentile CPU <= Max CPU.
C9_PercentileWithinRange ==
    \A i \in 1..Len(history) :
        (Returned(i) /\ FLess(Zero, RowOf(i)[6])) =>
            /\ FLeq(RowOf(i)[15], RowOf(i)[18])
            /\ FLeq(RowOf(i)[18], RowOf(i)[17])

Marker(key) ==
    CASE key = kDate -> sAAA_date
      [] key = kLparName -> s_lparname
      [] key = kSystemModel -> sSystemModel
      [] key = kMachineSerial -> sMachineSerial
      [] key = kProcessorType -> sProcessorType

Keys == {kDate, kLparName, kSystemModel, kMachineSerial, kProcessorType}

\* the keys some line of ls carries a marker for
MarkedKeys(ls) ==
    {key \in Keys : \E i \in 1..Len(ls) : Contains(ls[i], Marker(key))}

Scanned == SubSeq(lines, 1, idx - 1)

\* C10: the result of a call depends on the file's own lines only: during the
\* scan the flavor is AIX iff a line already scanned carries the signature,
\* the collections hold the retained records of the lines already scanned,
\* system_info holds keys of this file's headers only, and two calls on the
\* same lines return the same result wherever they stand in the batch.
C10_Isolation ==
    /\ pc = "scan" =>
          /\ os_type = FlavorOf(Scanned)
          /\ lpar_data = KeptLpar(Scanned)
          /\ proc_data = KeptProc(Scanned)
          /\ mem_data = KeptMem(Scanned)
          /\ DOMAIN system_info \subseteq MarkedKeys(Scanned)
    /\ \A i, j \in 1..Len(history) :
          (history[i].readable /\ history[j].readable
             /\ history[i].lines = history[j].lines)
          => history[i].result = history[j].result

\* an AIX file with an LPAR name, then a file without signature or headers
\* that got the Linux metrics and "N/A"
C10_Witness ==
    \E i \in 1..Len(history) :
        /\ i + 1 <= Len(history)
        /\ Returned(i)
        /\ HasSignature(history[i].lines)
        /\ RowOf(i)[2] # sNA
        /\ Returned(i + 1)
        /\ ~HasSignature(history[i + 1].lines)
        /\ RowOf(i + 1)[2] = sNA
        /\ RowOf(i + 1)[18] = FromInt(50)
        /\ MetricsOf(RowOf(i + 1)) = ZeroTuple12

====
